---- MODULE Spec2Model ----
(***************************************************************************)
(* A model of codex-rs/core/src/util.rs: the retry backoff calculator, the *)
(* error message extractor and the citation markup stripper, together with *)
(* the two lazily initialised pattern cells the stripper reads.            *)
(***************************************************************************)
EXTENDS Integers, Sequences, FiniteSets, TLC

VARIABLES
    unit,       \* which function of the module the run exercises
    attempt,    \* backoff: the u64 argument of the latest call (four 16-bit limbs)
    delay,      \* backoff: the Duration the latest call returned, in milliseconds
    calls,      \* backoff: how many calls the retry sequence has made
    body,       \* try_parse_error_message: the response text
    origin,     \* the JSON value the response text was written from, if any
    extracted,  \* try_parse_error_message: the returned String
    parsed,     \* whether try_parse_error_message has returned
    stripIn,    \* strip_citation_markup: the generated text
    stripOut,   \* the Cow the call on stripIn returned
    stripOut2,  \* the Cow a second call, on the first one's text, returned
    passes,     \* how many of the two calls have returned
    onceState,  \* per OnceLock: "incomplete", "running" or "complete"
    cell,       \* per OnceLock: the value slot
    writes,     \* per OnceLock: how many times the slot has been written
    pc,         \* per thread: where it is in strip_citation_markup
    seen,       \* per thread and OnceLock: the &Regex get_or_init gave it
    arg,        \* per thread: its text
    ret         \* per thread: the Cow it returned

backoffVars == <<attempt, delay, calls>>
parseVars   == <<body, origin, extracted, parsed>>
stripVars   == <<stripIn, stripOut, stripOut2, passes>>
onceVars    == <<onceState, cell, writes, pc, seen, arg, ret>>
vars == <<unit, backoffVars, parseVars, stripVars, onceVars>>

(***************************************************************************)
(* Bounds of the model.                                                    *)
(***************************************************************************)
\* The jitter draws are the multiples of 2^-JitterBits in [0.9, 1.1).
JitterBits == 7
\* The longest retry sequence followed from one starting attempt.
MaxRetries == 58
\* The nesting depth of the JSON values the response texts are written from.
MaxDepth == 3
\* The number of pieces a generated text is put together from.
MaxPieces == 4
\* The number of threads that call strip_citation_markup at once.
NumThreads == 2

(***************************************************************************)
(* 2^n, for the small n the model needs.                                    *)
(***************************************************************************)
RECURSIVE Pow2(_)
Pow2(n) == IF n <= 0 THEN 1 ELSE 2 * Pow2(n - 1)

(***************************************************************************)
(* u64 arguments.  A u64 is held as four 16-bit limbs, most significant    *)
(* first, so that the values around 2^31, 2^32 and 2^64 can be written.    *)
(***************************************************************************)
Limb == 65536

U64Zero == <<0, 0, 0, 0>>
U64Max  == <<Limb - 1, Limb - 1, Limb - 1, Limb - 1>>
U64Small(n) == <<0, 0, 0, n>>

\* a - 1, staying at 0 (u64::saturating_sub(1)).
SaturatingSub1(a) ==
    IF a = U64Zero THEN U64Zero
    ELSE IF a[4] > 0 THEN <<a[1], a[2], a[3], a[4] - 1>>
    ELSE IF a[3] > 0 THEN <<a[1], a[2], a[3] - 1, Limb - 1>>
    ELSE IF a[2] > 0 THEN <<a[1], a[2] - 1, Limb - 1, Limb - 1>>
    ELSE <<a[1] - 1, Limb - 1, Limb - 1, Limb - 1>>

\* a + 1 for a < u64::MAX (the caller's attempt += 1).
U64Succ(a) ==
    IF a[4] < Limb - 1 THEN <<a[1], a[2], a[3], a[4] + 1>>
    ELSE IF a[3] < Limb - 1 THEN <<a[1], a[2], a[3] + 1, 0>>
    ELSE IF a[2] < Limb - 1 THEN <<a[1], a[2] + 1, 0, 0>>
    ELSE <<a[1] + 1, 0, 0, 0>>

\* `x as i32` of a u64: the low 32 bits, read as two's complement.
AsI32(a) ==
    IF a[3] < Limb \div 2 THEN a[3] * Limb + a[4]
    ELSE (a[3] - Limb) * Limb + a[4]

(***************************************************************************)
(* f64 values.  Every float the function computes on the modelled draws is *)
(* m * 2^e with m below 2^31, which an f64 holds exactly, or +infinity.    *)
(***************************************************************************)
F64(m, e) == [m |-> m, e |-> e, inf |-> FALSE]
F64Inf    == [m |-> 1, e |-> 0, inf |-> TRUE]

\* The largest and smallest binary exponents of a finite non-zero f64.
F64MaxExp == 1023
F64MinExp == -1074

\* Bits(m): the number of bits of m (0 for 0).
RECURSIVE Bits(_)
Bits(m) == IF m <= 0 THEN 0 ELSE 1 + Bits(m \div 2)

\* Rounding into the f64 range: overflow gives +infinity, underflow 0.
F64Norm(m, e) ==
    IF m = 0 THEN F64(0, 0)
    ELSE IF e + Bits(m) - 1 > F64MaxExp THEN F64Inf
    ELSE IF e < F64MinExp THEN F64(0, 0)
    ELSE F64(m, e)

F64Mul(x, y) ==
    IF x.inf \/ y.inf THEN F64Inf ELSE F64Norm(x.m * y.m, x.e + y.e)

INITIAL_DELAY_MS == 200
\* 2.0
BACKOFF_FACTOR == F64(1, 1)

\* x.powi(n) for a power of two x = 2^x.e (which BACKOFF_FACTOR is): 1.0 for
\* n = 0, 2^(x.e * n) while that is finite, +infinity beyond, and for a
\* negative n the reciprocal of x.powi(-n), which is 0 once that is infinite.
powi(x, n) ==
    IF n = 0 \/ x.e = 0 THEN F64(1, 0)
    ELSE IF x.e * n > F64MaxExp THEN F64Inf
    ELSE IF x.e * n < -F64MaxExp THEN F64(0, 0)
    ELSE F64(1, x.e * n)

(***************************************************************************)
(* u64 results.  A result is m * 2^e (e >= 0), or u64::MAX when max holds. *)
(***************************************************************************)
U64(m, e) == [m |-> m, e |-> e, max |-> FALSE]
U64MaxVal == [m |-> 0, e |-> 0, max |-> TRUE]

\* `f as u64`: truncation toward zero, saturating at u64::MAX.
F64AsU64(f) ==
    IF f.inf THEN U64MaxVal
    ELSE IF f.m = 0 THEN U64(0, 0)
    ELSE IF f.e + Bits(f.m) - 1 >= 64 THEN U64MaxVal
    ELSE IF f.e >= 0 THEN U64(f.m, f.e)
    ELSE IF -f.e >= 31 THEN U64(0, 0)
    ELSE U64(f.m \div Pow2(-f.e), 0)

\* `u as f64`: exact below 2^53; u64::MAX rounds to 2^64.
U64AsF64(u) == IF u.max THEN F64(1, 64) ELSE F64(u.m, u.e)

\* The draws of rand::rng().random_range(0.9..1.1) the model follows: the
\* numerators j of the multiples j / 2^JitterBits in [0.9, 1.1).  Each is an
\* f64, and its product with a base of the function is exact in f64.
JitterDrawsWide ==
    { j \in 0 .. 2 * Pow2(JitterBits) :
        /\ 5 * Pow2(JitterBits) <= 10 * j
        /\ 10 * j < 15 * Pow2(JitterBits) }

JitterDraws ==
    { j \in 0 .. 2 * Pow2(JitterBits) :
        /\ 9 * Pow2(JitterBits) <= 10 * j
        /\ 10 * j < 11 * Pow2(JitterBits) }

Jitter(j) == F64(j, -JitterBits)

backoffNoSub(a, j) ==
    LET exp  == powi(BACKOFF_FACTOR, AsI32(a))
        base == F64AsU64(F64Mul(F64(INITIAL_DELAY_MS, 0), exp))
    IN  F64AsU64(F64Mul(U64AsF64(base), Jitter(j)))

\* backoff(attempt) with the jitter draw j / 2^JitterBits.
backoff(a, j) ==
    LET exp  == powi(BACKOFF_FACTOR, AsI32(SaturatingSub1(a)))
        base == F64AsU64(F64Mul(F64(INITIAL_DELAY_MS, 0), exp))
    IN  F64AsU64(F64Mul(U64AsF64(base), Jitter(j)))

(***************************************************************************)
(* Order on u64 results.                                                   *)
(***************************************************************************)
U64Le(a, b) ==
    IF b.max THEN TRUE
    ELSE IF a.max THEN FALSE
    ELSE IF a.m = 0 THEN TRUE
    ELSE IF a.e >= b.e
         THEN IF a.e - b.e >= 31 THEN FALSE
              ELSE a.m <= b.m \div Pow2(a.e - b.e)
         ELSE IF b.e - a.e >= 31 THEN b.m > 0
              ELSE ~(b.m <= (a.m - 1) \div Pow2(b.e - a.e))

U64Lt(a, b) == ~U64Le(b, a)

(***************************************************************************)
(* Text.  A string is a sequence of one-character strings.                 *)
(***************************************************************************)
RECURSIVE Concat(_)
Concat(parts) ==
    IF parts = <<>> THEN <<>> ELSE Head(parts) \o Concat(Tail(parts))

\* F(x), with x worked out once and handed to F as a value (Rust's `let`).
Bind(x, F(_)) == CHOOSE y \in { F(v) : v \in {x} } : TRUE

\* Whether the characters of lit stand in txt from position i on.
StartsAt(txt, i, lit) ==
    /\ i + Len(lit) - 1 <= Len(txt)
    /\ \A k \in 1 .. Len(lit) : txt[i + k - 1] = lit[k]

(***************************************************************************)
(* serde_json::Value.  One record shape for every variant: t is the        *)
(* variant, s the characters of a string (or the lexeme of a number or     *)
(* boolean), kids the items of an array or the member values of an object, *)
(* keys the member keys of an object, in the order read.                   *)
(***************************************************************************)
JV(t, s, keys, kids) == [t |-> t, s |-> s, keys |-> keys, kids |-> kids]
JNull        == JV("null", <<>>, <<>>, <<>>)
JBool(lex)   == JV("bool", lex, <<>>, <<>>)
JNum(lex)    == JV("num", lex, <<>>, <<>>)
JStr(s)      == JV("str", s, <<>>, <<>>)
JArr(items)  == JV("arr", <<>>, <<>>, items)
JObj(ks, vs) == JV("obj", <<>>, ks, vs)

\* A parser's answer: whether it read a value, the value, the next position.
Got(v, pos) == [ok |-> TRUE, v |-> v, pos |-> pos]
Bad(pos)    == [ok |-> FALSE, v |-> JNull, pos |-> pos]

JsonWs     == {" ", "\n", "\t", "\r"}
JsonDigits == {"0", "1", "2", "3", "4", "5", "6", "7", "8", "9"}

RECURSIVE SkipWs(_, _)
SkipWs(txt, i) ==
    IF i <= Len(txt) /\ txt[i] \in JsonWs THEN SkipWs(txt, i + 1) ELSE i

RECURSIVE SkipDigits(_, _)
SkipDigits(txt, i) ==
    IF i <= Len(txt) /\ txt[i] \in JsonDigits THEN SkipDigits(txt, i + 1) ELSE i

\* The character an escape \c stands for ("" when c starts no escape).  The
\* texts of the model hold no \u escape, which is left out.
Unescape(c) ==
    CASE c = "\"" -> "\""
      [] c = "\\" -> "\\"
      [] c = "/"  -> "/"
      [] c = "n"  -> "\n"
      [] c = "t"  -> "\t"
      [] c = "r"  -> "\r"
      [] c = "b"  -> "\\b"
      [] c = "f"  -> "\\f"
      [] OTHER    -> ""

\* The characters of a string literal from position i (after its opening
\* quote) to its closing quote, escapes decoded; acc holds those read so far.
RECURSIVE ParseStrBody(_, _, _)
ParseStrBody(txt, i, acc) ==
    IF i > Len(txt) THEN Bad(i)
    ELSE IF txt[i] = "\"" THEN Got(JStr(acc), i + 1)
    ELSE IF txt[i] \in {"\n", "\t", "\r"} THEN Bad(i)
    ELSE IF txt[i] = "\\"
         THEN IF i + 1 > Len(txt) \/ Unescape(txt[i + 1]) = "" THEN Bad(i)
              ELSE ParseStrBody(txt, i + 2, Append(acc, Unescape(txt[i + 1])))
    ELSE ParseStrBody(txt, i + 1, Append(acc, txt[i]))

\* A number: -? (0 | [1-9][0-9]*) (. [0-9]+)? ([eE] [+-]? [0-9]+)?
ParseNumber(txt, i) ==
    LET a == IF i <= Len(txt) /\ txt[i] = "-" THEN i + 1 ELSE i
        b == IF a <= Len(txt) /\ txt[a] = "0" THEN a + 1 ELSE SkipDigits(txt, a)
        c == IF b <= Len(txt) /\ txt[b] = "." THEN SkipDigits(txt, b + 1) ELSE b
        fracOk == c = b \/ c > b + 1
        d == IF c <= Len(txt) /\ txt[c] \in {"e", "E"} THEN c + 1 ELSE c
        e == IF d > c /\ d <= Len(txt) /\ txt[d] \in {"+", "-"} THEN d + 1 ELSE d
        f == IF d > c THEN SkipDigits(txt, e) ELSE c
        expOk == d = c \/ f > e
    IN  IF b = a \/ ~fracOk \/ ~expOk THEN Bad(i)
        ELSE Got(JNum(SubSeq(txt, i, f - 1)), f)

RECURSIVE ParseValue(_, _)
RECURSIVE ParseElems(_, _, _)
RECURSIVE ParseMembers(_, _, _, _)

\* The items of an array from position i (after "[" or ","), up to "]".
ParseElems(txt, i, acc) ==
    Bind(ParseValue(txt, SkipWs(txt, i)), LAMBDA r :
    Bind(SkipWs(txt, r.pos), LAMBDA j :
        IF ~r.ok \/ j > Len(txt) THEN Bad(i)
        ELSE IF txt[j] = "," THEN ParseElems(txt, j + 1, Append(acc, r.v))
        ELSE IF txt[j] = "]" THEN Got(JArr(Append(acc, r.v)), j + 1)
        ELSE Bad(j)))

\* A member's key from position a: a string literal.
ParseKey(txt, a) ==
    IF a <= Len(txt) /\ txt[a] = "\"" THEN ParseStrBody(txt, a + 1, <<>>)
    ELSE Bad(a)

\* A member's value after its key k: a colon, then a value.
ParseColonValue(txt, k, c) ==
    IF k.ok /\ c <= Len(txt) /\ txt[c] = ":"
    THEN ParseValue(txt, SkipWs(txt, c + 1))
    ELSE Bad(c)

\* The members of an object from position i (after "{" or ","), up to "}".
ParseMembers(txt, i, ks, vs) ==
    Bind(ParseKey(txt, SkipWs(txt, i)), LAMBDA k :
    Bind(ParseColonValue(txt, k, SkipWs(txt, k.pos)), LAMBDA r :
    Bind(SkipWs(txt, r.pos), LAMBDA j :
        IF ~r.ok \/ j > Len(txt) THEN Bad(i)
        ELSE IF txt[j] = ","
             THEN ParseMembers(txt, j + 1, Append(ks, k.v.s), Append(vs, r.v))
        ELSE IF txt[j] = "}"
             THEN Got(JObj(Append(ks, k.v.s), Append(vs, r.v)), j + 1)
        ELSE Bad(j))))

\* One JSON value starting at position i (whitespace already skipped).
ParseValue(txt, i) ==
    IF i > Len(txt) THEN Bad(i)
    ELSE IF txt[i] = "\"" THEN ParseStrBody(txt, i + 1, <<>>)
    ELSE IF txt[i] = "{"
         THEN Bind(SkipWs(txt, i + 1), LAMBDA j :
                  IF j <= Len(txt) /\ txt[j] = "}" THEN Got(JObj(<<>>, <<>>), j + 1)
                  ELSE ParseMembers(txt, j, <<>>, <<>>))
    ELSE IF txt[i] = "["
         THEN Bind(SkipWs(txt, i + 1), LAMBDA j :
                  IF j <= Len(txt) /\ txt[j] = "]" THEN Got(JArr(<<>>), j + 1)
                  ELSE ParseElems(txt, j, <<>>))
    ELSE IF StartsAt(txt, i, <<"n", "u", "l", "l">>) THEN Got(JNull, i + 4)
    ELSE IF StartsAt(txt, i, <<"t", "r", "u", "e">>)
         THEN Got(JBool(<<"t", "r", "u", "e">>), i + 4)
    ELSE IF StartsAt(txt, i, <<"f", "a", "l", "s", "e">>)
         THEN Got(JBool(<<"f", "a", "l", "s", "e">>), i + 5)
    ELSE ParseNumber(txt, i)

\* serde_json::from_str::<Value>: one value, whitespace around it, no more.
from_str(txt) ==
    Bind(ParseValue(txt, SkipWs(txt, 1)), LAMBDA r :
        IF r.ok /\ SkipWs(txt, r.pos) = Len(txt) + 1 THEN r ELSE Bad(1))

\* Result::unwrap_or_default: Value::Null for a text that is no JSON.
unwrap_or_default(r) == IF r.ok THEN r.v ELSE JNull

\* The positions of key among an object's members.
KeyPositions(v, key) == { n \in 1 .. Len(v.keys) : v.keys[n] = key }

\* Value::get(key): Some(member) of an object that has the key (the last
\* member read under a key is the one the map keeps), None otherwise.
Some(v) == [some |-> TRUE, v |-> v]
None    == [some |-> FALSE, v |-> JNull]

get(v, key) ==
    IF v.t = "obj" /\ KeyPositions(v, key) # {}
    THEN Some(v.kids[CHOOSE n \in KeyPositions(v, key) :
                        \A k \in KeyPositions(v, key) : k <= n])
    ELSE None

\* Value::as_str: Some(characters) of a string, None of anything else.
as_str(v) == IF v.t = "str" THEN Some(v.s) ELSE [some |-> FALSE, v |-> <<>>]

KeyError     == <<"e", "r", "r", "o", "r">>
KeyMessage   == <<"m", "e", "s", "s", "a", "g", "e">>
UnknownError == <<"U", "n", "k", "n", "o", "w", "n", " ", "e", "r", "r", "o", "r">>

tryParseTopLevelMessage(txt) ==
    LET json    == unwrap_or_default(from_str(txt))
        message == get(json, KeyMessage)
        str     == IF message.some THEN as_str(message.v)
                   ELSE [some |-> FALSE, v |-> <<>>]
    IN  IF str.some THEN str.v
        ELSE IF txt = <<>> THEN UnknownError
        ELSE txt

try_parse_error_message(txt) ==
    LET json    == unwrap_or_default(from_str(txt))
        error   == get(json, KeyError)
        message == IF error.some THEN get(error.v, KeyMessage) ELSE None
        str     == IF message.some THEN as_str(message.v)
                   ELSE [some |-> FALSE, v |-> <<>>]
    IN  IF str.some THEN str.v
        ELSE IF txt = <<>> THEN UnknownError
        ELSE txt

(***************************************************************************)
(* The two citation patterns.  Both have the shape                         *)
(*     open ( [\s\S]*? ) close                                             *)
(* a literal, a lazy run of any characters (group 1), a literal.           *)
(***************************************************************************)
OpenSentinel  == "U+E200"
CloseSentinel == "U+E201"

Regex(open, close) == [init |-> TRUE, open |-> open, close |-> close]

\* Regex::new(r"\u{e200}cite[\s\S]*?\u{e201}")
PuaPattern == Regex(<<OpenSentinel, "c", "i", "t", "e">>, <<CloseSentinel>>)
\* Regex::new(r"<cite\|([\s\S]*?)\|>")
AnglePattern == Regex(<<"<", "c", "i", "t", "e", "|">>, <<"|", ">">>)

\* The class [\s\S]: a whitespace character or a character that is none.
PerlSpace == {" ", "\t", "\n", "\r"}
AnyChar(c) == c \in PerlSpace \/ c \notin PerlSpace

Match(start, stop, g1) == [found |-> TRUE, start |-> start, stop |-> stop, g1 |-> g1]
NoMatch == [found |-> FALSE, start |-> 0, stop |-> 0, g1 |-> <<>>]

\* The lazy run: from position j the engine first tries the close literal
\* and only then lets the run take one more character.
RECURSIVE LazyRun(_, _, _, _)
LazyRun(re, txt, i, j) ==
    IF StartsAt(txt, j, re.close)
    THEN Match(i, j + Len(re.close), SubSeq(txt, i + Len(re.open), j - 1))
    ELSE IF j <= Len(txt) /\ AnyChar(txt[j]) THEN LazyRun(re, txt, i, j + 1)
    ELSE NoMatch

RECURSIVE GreedyRun(_, _, _, _)
GreedyRun(re, txt, i, j) ==
    IF j < i + Len(re.open) THEN NoMatch
    ELSE IF StartsAt(txt, j, re.close)
    THEN Match(i, j + Len(re.close), SubSeq(txt, i + Len(re.open), j - 1))
    ELSE GreedyRun(re, txt, i, j - 1)

\* A match that starts exactly at position i.
MatchAtGreedy(re, txt, i) ==
    IF StartsAt(txt, i, re.open) THEN GreedyRun(re, txt, i, Len(txt))
    ELSE NoMatch

MatchAt(re, txt, i) ==
    IF StartsAt(txt, i, re.open) THEN LazyRun(re, txt, i, i + Len(re.open))
    ELSE NoMatch

\* Regex::find_at: the leftmost match starting at position i or later.
RECURSIVE find_at(_, _, _)
find_at(re, txt, i) ==
    IF i > Len(txt) THEN NoMatch
    ELSE IF MatchAt(re, txt, i).found THEN MatchAt(re, txt, i)
    ELSE find_at(re, txt, i + 1)

find(re, txt)     == find_at(re, txt, 1)
is_match(re, txt) == find(re, txt).found

\* The replacement string with its group reference filled in ("$1").
Expand(rep, m) == IF rep = <<"$", "1">> THEN m.g1 ELSE rep

\* Regex::replace_all: the matches from left to right, none overlapping
\* another; the text between them is copied, each match gives its expansion.
RECURSIVE replace_from(_, _, _, _)
replace_from(re, txt, rep, i) ==
    LET m == find_at(re, txt, i)
    IN  IF ~m.found THEN SubSeq(txt, i, Len(txt))
        ELSE SubSeq(txt, i, m.start - 1) \o Expand(rep, m)
                 \o replace_from(re, txt, rep, m.stop)

replace_all(re, txt, rep) == replace_from(re, txt, rep, 1)

Borrowed(txt) == [owned |-> FALSE, s |-> txt]
Owned(txt)    == [owned |-> TRUE, s |-> txt]

stripNoAnglePass(txt, re_pua, re_angle) ==
    IF find(re_pua, txt).found
    THEN Owned(replace_all(re_pua, txt, <<>>))
    ELSE IF is_match(re_angle, txt)
         THEN Owned(replace_all(re_angle, txt, <<"$", "1">>))
         ELSE Borrowed(txt)

stripAlwaysOwned(txt, re_pua, re_angle) ==
    Owned(replace_all(re_angle, replace_all(re_pua, txt, <<>>), <<"$", "1">>))

\* strip_citation_markup, given the two patterns its cells hold.
strip_citation_markup(txt, re_pua, re_angle) ==
    IF find(re_pua, txt).found
    THEN LET replaced == replace_all(re_pua, txt, <<>>)
         IN  IF is_match(re_angle, replaced)
             THEN Owned(replace_all(re_angle, replaced, <<"$", "1">>))
             ELSE Owned(replaced)
    ELSE IF is_match(re_angle, txt)
         THEN Owned(replace_all(re_angle, txt, <<"$", "1">>))
         ELSE Borrowed(txt)

(***************************************************************************)
(* The state of each part while the run exercises another one.             *)
(***************************************************************************)
Locks   == {"PUA_RE", "ANGLE_RE"}
Threads == 1 .. NumThreads
Uninit  == [init |-> FALSE, open |-> <<>>, close |-> <<>>]

BackoffIdle == attempt = U64Zero /\ delay = U64(0, 0) /\ calls = 0
ParseIdle   == body = <<>> /\ origin = None /\ extracted = <<>> /\ parsed = FALSE
StripIdle   ==
    /\ stripIn = <<>>
    /\ stripOut = Borrowed(<<>>)
    /\ stripOut2 = Borrowed(<<>>)
    /\ passes = 0
OnceIdle    ==
    /\ onceState = [l \in Locks |-> "incomplete"]
    /\ cell = [l \in Locks |-> Uninit]
    /\ writes = [l \in Locks |-> 0]
    /\ pc = [t \in Threads |-> [at |-> "done", lock |-> "ANGLE_RE"]]
    /\ seen = [t \in Threads |-> [l \in Locks |-> Uninit]]
    /\ arg = [t \in Threads |-> <<>>]
    /\ ret = [t \in Threads |-> Borrowed(<<>>)]

(***************************************************************************)
(* The retry sequence that calls backoff.                                  *)
(***************************************************************************)
StartAttempts ==
    { U64Zero,
      <<0, 0, Limb \div 2 - 1, Limb - 3>>,     \* 2^31 - 3
      <<0, 0, Limb - 1, Limb - 12>>,           \* 2^32 - 12
      <<Limb - 1, Limb - 1, Limb - 1, Limb - 3>> }  \* u64::MAX - 2

InitBackoff ==
    /\ unit = "backoff"
    /\ attempt \in StartAttempts
    /\ delay = U64(0, 0)
    /\ calls = 0
    /\ ParseIdle /\ StripIdle /\ OnceIdle

FirstCall ==
    /\ unit = "backoff"
    /\ calls = 0
    /\ \E j \in JitterDraws : delay' = backoff(attempt, j)
    /\ calls' = 1
    /\ UNCHANGED <<unit, attempt, parseVars, stripVars, onceVars>>

Retry ==
    /\ unit = "backoff"
    /\ calls \in 1 .. MaxRetries
    /\ attempt # U64Max
    /\ attempt' = U64Succ(attempt)
    /\ \E j \in JitterDraws : delay' = backoff(attempt', j)
    /\ calls' = calls + 1
    /\ UNCHANGED <<unit, parseVars, stripVars, onceVars>>

NextBackoff == FirstCall \/ Retry

SpecBackoff == InitBackoff /\ [][NextBackoff]_vars

(***************************************************************************)
(* The response texts handed to try_parse_error_message: JSON values       *)
(* written out compactly or with spaces, such texts with one character     *)
(* missing, and texts that are no JSON at all.                             *)
(***************************************************************************)
EscapeChar(c) ==
    IF c = "\"" THEN <<"\\", "\"">>
    ELSE IF c = "\\" THEN <<"\\", "\\">>
    ELSE <<c>>

Escape(str) == Concat([n \in 1 .. Len(str) |-> EscapeChar(str[n])])

Quoted(str) == <<"\"">> \o Escape(str) \o <<"\"">>

\* The texts of parts, sep between each two.
RECURSIVE Join(_, _)
Join(parts, sep) ==
    IF parts = <<>> THEN <<>>
    ELSE IF Len(parts) = 1 THEN parts[1]
    ELSE parts[1] \o sep \o Join(Tail(parts), sep)

\* The value v written out, compactly or with spaces after the punctuation.
RECURSIVE to_text(_, _)
RECURSIVE ItemTexts(_, _, _)
RECURSIVE MemberTexts(_, _, _)

\* The texts of the items of array v from the n-th on.
ItemTexts(v, spaced, n) ==
    IF n > Len(v.kids) THEN <<>>
    ELSE Bind(to_text(v.kids[n], spaced), LAMBDA t :
             <<t>> \o ItemTexts(v, spaced, n + 1))

\* The texts "key": value of the members of object v from the n-th on.
MemberTexts(v, spaced, n) ==
    IF n > Len(v.kids) THEN <<>>
    ELSE Bind(to_text(v.kids[n], spaced), LAMBDA t :
             <<Quoted(v.keys[n]) \o <<":">>
                   \o (IF spaced THEN <<" ">> ELSE <<>>) \o t>>
                 \o MemberTexts(v, spaced, n + 1))

to_text(v, spaced) ==
    LET sp == IF spaced THEN <<" ">> ELSE <<>>
    IN  CASE v.t = "null" -> <<"n", "u", "l", "l">>
          [] v.t \in {"num", "bool"} -> v.s
          [] v.t = "str" -> Quoted(v.s)
          [] v.t = "arr" ->
                Bind(ItemTexts(v, spaced, 1), LAMBDA ts :
                    <<"[">> \o Join(ts, <<",">> \o sp) \o <<"]">>)
          [] v.t = "obj" ->
                Bind(MemberTexts(v, spaced, 1), LAMBDA ts :
                    <<"{">> \o sp \o Join(ts, <<",">> \o sp) \o sp \o <<"}">>)

Scalars ==
    { JNull, JNum(<<"1">>), JStr(<<>>), JStr(<<"M">>), JStr(<<"a", "\"", "b">>) }

\* The values one level deeper than v: v as the item of an array, as the
\* one member of an object, and as one of two members, beside a number,
\* under the same key or under the two keys.
Wrap(v) ==
    { JArr(<<v>>),
      JObj(<<KeyError>>, <<v>>),
      JObj(<<KeyMessage>>, <<v>>),
      JObj(<<KeyError, KeyError>>, <<v, JNum(<<"1">>)>>),
      JObj(<<KeyError, KeyError>>, <<JNum(<<"1">>), v>>),
      JObj(<<KeyMessage, KeyError>>, <<JNum(<<"1">>), v>>) }

\* The JSON values of nesting depth d or less.
RECURSIVE Values(_)
Values(d) ==
    IF d = 0 THEN Scalars \cup { JArr(<<>>), JObj(<<>>, <<>>) }
    ELSE LET sub == Values(d - 1)
         IN  sub \cup UNION { Wrap(v) : v \in sub }

DeleteAt(txt, i) == SubSeq(txt, 1, i - 1) \o SubSeq(txt, i + 1, Len(txt))

RawTexts ==
    { <<>>, <<" ">>, <<"p", "l", "a", "i", "n">>, <<"5", "0", "2", " ", "B", "a", "d">> }

\* A text with the value it was written from, or with None.
Input(txt, from) == [text |-> txt, origin |-> from]

\* The response texts from values of depth d or less: each value written
\* compactly, the less deep ones also spaced out and, less deep again, with
\* any one character of the compact text missing; and the raw texts.
ParseInputs(d) ==
    { Input(to_text(v, FALSE), Some(v)) : v \in Values(d) }
    \cup { Input(to_text(v, TRUE), Some(v)) : v \in Values(d - 1) }
    \cup { Input(t, None) : t \in RawTexts }
    \cup UNION { { Input(DeleteAt(to_text(v, FALSE), i), None) :
                      i \in 1 .. Len(to_text(v, FALSE)) } :
                 v \in Values(d - 2) }

InitParse ==
    /\ unit = "parse"
    /\ \E in \in ParseInputs(MaxDepth) : body = in.text /\ origin = in.origin
    /\ extracted = <<>>
    /\ parsed = FALSE
    /\ BackoffIdle /\ StripIdle /\ OnceIdle

ParseCall ==
    /\ unit = "parse"
    /\ ~parsed
    /\ extracted' = try_parse_error_message(body)
    /\ parsed' = TRUE
    /\ UNCHANGED <<unit, body, origin, backoffVars, stripVars, onceVars>>

NextParse == ParseCall

SpecParse == InitParse /\ [][NextParse]_vars

(***************************************************************************)
(* The generated texts handed to strip_citation_markup: up to MaxPieces    *)
(* pieces of markup and plain text, one after the other.                   *)
(***************************************************************************)
Cite == <<"c", "i", "t", "e">>

Pieces ==
    { <<OpenSentinel>> \o Cite \o <<"\n", CloseSentinel>>, <<CloseSentinel>>,
      <<"<">> \o Cite \o <<"|">>, <<"|", ">">>,
      <<"<", "c", "i">>, <<"t", "e", "|">>, <<"x">> }

\* The texts of max pieces or less.
StripInputs(max) ==
    UNION { { Concat(ps) : ps \in [1 .. n -> Pieces] } : n \in 0 .. max }

InitStrip ==
    /\ unit = "strip"
    /\ stripIn \in StripInputs(MaxPieces)
    /\ stripOut = Borrowed(<<>>)
    /\ stripOut2 = Borrowed(<<>>)
    /\ passes = 0
    /\ BackoffIdle /\ ParseIdle /\ OnceIdle

\* The call on the generated text.
StripCall ==
    /\ unit = "strip"
    /\ passes = 0
    /\ stripOut' = strip_citation_markup(stripIn, PuaPattern, AnglePattern)
    /\ passes' = 1
    /\ UNCHANGED <<unit, stripIn, stripOut2, backoffVars, parseVars, onceVars>>

\* A second call, on the text the first one returned.
StripAgain ==
    /\ unit = "strip"
    /\ passes = 1
    /\ stripOut2' = strip_citation_markup(stripOut.s, PuaPattern, AnglePattern)
    /\ passes' = 2
    /\ UNCHANGED <<unit, stripIn, stripOut, backoffVars, parseVars, onceVars>>

NextStrip == StripCall \/ StripAgain

SpecStrip == InitStrip /\ [][NextStrip]_vars

(***************************************************************************)
(* Threads that enter strip_citation_markup at once: each goes through     *)
(* PUA_RE.get_or_init, ANGLE_RE.get_or_init and then matches its text.     *)
(***************************************************************************)
OnceTexts ==
    { <<"x">>,
      <<OpenSentinel>> \o Cite \o <<"\n", CloseSentinel, "<">> \o Cite
          \o <<"|", "x", "|", ">">> }

\* What the initialiser of each cell builds.
Compiled(l) == IF l = "PUA_RE" THEN PuaPattern ELSE AnglePattern

At(step, l) == [at |-> step, lock |-> l]

\* Where a thread goes once it holds the reference of lock l.
After(l) == IF l = "PUA_RE" THEN At("get", "ANGLE_RE") ELSE At("match", "ANGLE_RE")

\* Once::call runs the initialiser only from the state "incomplete", which
\* it leaves in the same atomic step.
MayRunInitRacy(st) == st # "complete"

MayRunInit(st) == st = "incomplete"

InitOnce ==
    /\ unit = "once"
    /\ onceState = [l \in Locks |-> "incomplete"]
    /\ cell = [l \in Locks |-> Uninit]
    /\ writes = [l \in Locks |-> 0]
    /\ pc = [t \in Threads |-> At("get", "PUA_RE")]
    /\ seen = [t \in Threads |-> [l \in Locks |-> Uninit]]
    /\ arg \in [Threads -> OnceTexts]
    /\ ret = [t \in Threads |-> Borrowed(<<>>)]
    /\ BackoffIdle /\ ParseIdle /\ StripIdle

\* OnceLock::get_or_init, the fast path: an initialised cell is read at once.
OnceGet(t) ==
    /\ unit = "once"
    /\ pc[t].at = "get"
    /\ LET l == pc[t].lock
       IN  IF onceState[l] = "complete"
           THEN /\ seen' = [seen EXCEPT ![t][l] = cell[l]]
                /\ pc' = [pc EXCEPT ![t] = After(l)]
           ELSE /\ pc' = [pc EXCEPT ![t] = At("call", l)]
                /\ UNCHANGED seen
    /\ UNCHANGED <<unit, onceState, cell, writes, arg, ret,
                   backoffVars, parseVars, stripVars>>

\* Once::call: take the initialisation, or find it done; a thread that
\* finds it running waits.
OnceCall(t) ==
    /\ unit = "once"
    /\ pc[t].at = "call"
    /\ LET l == pc[t].lock
       IN  \/ /\ MayRunInit(onceState[l])
              /\ onceState' = [onceState EXCEPT ![l] = "running"]
              /\ pc' = [pc EXCEPT ![t] = At("init", l)]
           \/ /\ onceState[l] = "complete"
              /\ pc' = [pc EXCEPT ![t] = At("read", l)]
              /\ UNCHANGED onceState
    /\ UNCHANGED <<unit, cell, writes, seen, arg, ret,
                   backoffVars, parseVars, stripVars>>

\* The initialiser: Regex::new(...), written to the slot, the Once completed.
OnceInit(t) ==
    /\ unit = "once"
    /\ pc[t].at = "init"
    /\ LET l == pc[t].lock
       IN  /\ cell' = [cell EXCEPT ![l] = Compiled(l)]
           /\ writes' = [writes EXCEPT ![l] = @ + 1]
           /\ onceState' = [onceState EXCEPT ![l] = "complete"]
           /\ pc' = [pc EXCEPT ![t] = At("read", l)]
    /\ UNCHANGED <<unit, seen, arg, ret, backoffVars, parseVars, stripVars>>

\* get_unchecked: the reference to the slot's value.
OnceRead(t) ==
    /\ unit = "once"
    /\ pc[t].at = "read"
    /\ LET l == pc[t].lock
       IN  /\ seen' = [seen EXCEPT ![t][l] = cell[l]]
           /\ pc' = [pc EXCEPT ![t] = After(l)]
    /\ UNCHANGED <<unit, onceState, cell, writes, arg, ret,
                   backoffVars, parseVars, stripVars>>

\* The rest of the function.  Matching against a slot that was never
\* written is undefined: any result may come back.
OnceMatch(t) ==
    /\ unit = "once"
    /\ pc[t].at = "match"
    /\ IF \A l \in Locks : seen[t][l].init
       THEN ret' = [ret EXCEPT ![t] =
                       strip_citation_markup(arg[t], seen[t]["PUA_RE"],
                                             seen[t]["ANGLE_RE"])]
       ELSE \E r \in {Borrowed(arg[t]), Owned(arg[t]), Owned(<<>>)} :
                ret' = [ret EXCEPT ![t] = r]
    /\ pc' = [pc EXCEPT ![t] = At("done", "ANGLE_RE")]
    /\ UNCHANGED <<unit, onceState, cell, writes, seen, arg,
                   backoffVars, parseVars, stripVars>>

NextOnce ==
    \E t \in Threads :
        OnceGet(t) \/ OnceCall(t) \/ OnceInit(t) \/ OnceRead(t) \/ OnceMatch(t)

SpecOnce == InitOnce /\ [][NextOnce]_vars

(***************************************************************************)
(* The module as a whole: a run exercises one of its parts.                *)
(***************************************************************************)
Init == InitBackoff \/ InitParse \/ InitStrip \/ InitOnce

Next == NextBackoff \/ NextParse \/ NextStrip \/ NextOnce

Spec == Init /\ [][Next]_vars

(***************************************************************************)
(* Properties of backoff.                                                  *)
(***************************************************************************)
IsSmall(a) == a[1] = 0 /\ a[2] = 0 /\ a[3] = 0

\* C3: backoff(attempt) is a duration greater than zero for every u64
\* attempt and every jitter draw.
C3_Positive ==
    (unit = "backoff" /\ calls > 0) => (delay.max \/ delay.m > 0)

\* ten times a u64 result (for the comparisons with 0.9 and 1.1 times a base).
Times10(u) == U64(10 * u.m, u.e)

\* C6: backoff(0) and backoff(1) lie in [180ms, 220ms], backoff(2) in
\* [360ms, 440ms], backoff(3) in [720ms, 880ms], and for every attempt up
\* to 57 (200 * 2^(attempt-1) fits in 64 bits) the result lies between 0.9
\* and 1.1 times 200 * 2^max(attempt-1, 0) milliseconds.
C6_Range ==
    (unit = "backoff" /\ calls > 0 /\ IsSmall(attempt) /\ attempt[4] <= 57) =>
        LET a == attempt[4]
            k == IF a >= 1 THEN a - 1 ELSE 0
        IN  /\ U64Le(U64(9 * 200, k), Times10(delay))
            /\ U64Le(Times10(delay), U64(11 * 200, k))
            /\ a \in {0, 1} => delay.e = 0 /\ delay.m \in 180 .. 220
            /\ a = 2 => delay.e = 0 /\ delay.m \in 360 .. 440
            /\ a = 3 => delay.e = 0 /\ delay.m \in 720 .. 880

\* The largest attempt of C6 has been called, after the retries before it.
C6_Witness ==
    /\ unit = "backoff"
    /\ attempt = U64Small(57)
    /\ calls = 58
    /\ delay.e > 0

\* C10: for 1 <= a <= 56, whatever the two jitter draws, the delay of
\* attempt a + 1 is strictly greater than the delay of attempt a.
C10_Monotone ==
    [][(/\ unit = "backoff"
        /\ calls >= 1
        /\ IsSmall(attempt)
        /\ attempt[4] \in 1 .. 56
        /\ attempt' = U64Succ(attempt)) => U64Lt(delay, delay')]_vars

\* A retry has followed a call with an attempt of 1 or more.
C10_Witness ==
    /\ unit = "backoff"
    /\ attempt = U64Small(2)
    /\ calls = 3
    /\ delay.m >= 360

(***************************************************************************)
(* Properties of try_parse_error_message.                                  *)
(***************************************************************************)
\* C1: try_parse_error_message returns a non-empty string for every text.
C1_NonEmpty ==
    (unit = "parse" /\ parsed) => Len(extracted) > 0

\* The member a JSON object holds under key: the last one written with it.
HasField(v, key) == v.t = "obj" /\ \E n \in 1 .. Len(v.keys) : v.keys[n] = key
Field(v, key) ==
    v.kids[CHOOSE n \in 1 .. Len(v.keys) :
              /\ v.keys[n] = key
              /\ \A k \in n + 1 .. Len(v.keys) : v.keys[k] # key]

\* Whether value v has a field error whose field message is a string.
HasErrorMessage(v) ==
    /\ HasField(v, KeyError)
    /\ HasField(Field(v, KeyError), KeyMessage)
    /\ Field(Field(v, KeyError), KeyMessage).t = "str"
ErrorMessage(v) == Field(Field(v, KeyError), KeyMessage).s

\* The three-way decision, for a text that is the JSON value v or none.
Decision(txt, isJson, v) ==
    IF isJson /\ HasErrorMessage(v) THEN ErrorMessage(v)
    ELSE IF txt = <<>> THEN UnknownError
    ELSE txt

\* C4: the result is error.message when the text is JSON with a string
\* there, "Unknown error" for the empty text, the text itself otherwise.
\* For a text written from a known JSON value the decision is also read
\* off that value.
C4_ThreeWay ==
    (unit = "parse" /\ parsed) =>
        LET r == from_str(body)
        IN  /\ extracted = Decision(body, r.ok, r.v)
            /\ origin.some => r.ok /\ r.v = origin.v
            /\ origin.some => extracted = Decision(body, TRUE, origin.v)

\* A message that differs from every slice of the text (an escape decoded)
\* has been extracted from a spaced-out body.
C4_Witness ==
    /\ unit = "parse"
    /\ parsed
    /\ origin.some
    /\ extracted = <<"a", "\"", "b">>
    /\ body # extracted
    /\ Len(body) > 25

(***************************************************************************)
(* Properties of strip_citation_markup.                                    *)
(***************************************************************************)
\* A span of the pattern from position i with its close literal at j: the
\* shortest one from i.
IsSpan(re, txt, i, j) ==
    /\ StartsAt(txt, i, re.open)
    /\ j >= i + Len(re.open)
    /\ StartsAt(txt, j, re.close)
    /\ \A k \in i + Len(re.open) .. j - 1 : ~StartsAt(txt, k, re.close)

HasSpan(re, txt) ==
    \E i \in 1 .. Len(txt) : \E j \in i .. Len(txt) : IsSpan(re, txt, i, j)

\* For each position the place of the close literal of the span that
\* starts there, 0 where none starts.
CloseAt(re, txt) ==
    [i \in 1 .. Len(txt) |->
        IF \E j \in i .. Len(txt) : IsSpan(re, txt, i, j)
        THEN CHOOSE j \in i .. Len(txt) : IsSpan(re, txt, i, j)
        ELSE 0]

\* The starts up to position i of the spans taken: from the left, a span
\* is taken when no span taken before it reaches its start.
RECURSIVE Taken(_, _, _)
Taken(closeAt, closeLen, i) ==
    IF i = 0 THEN {}
    ELSE LET before == Taken(closeAt, closeLen, i - 1)
         IN  IF closeAt[i] > 0 /\ \A h \in before : closeAt[h] + closeLen <= i
             THEN before \cup {i}
             ELSE before

\* The positions of txt that survive: those outside every span taken, and
\* with payload also those of the payloads of the spans taken.
Surviving(re, txt, payload) ==
    LET closeAt == CloseAt(re, txt)
        taken   == Taken(closeAt, Len(re.close), Len(txt))
    IN  { p \in 1 .. Len(txt) :
            \A i \in taken :
                (i <= p /\ p < closeAt[i] + Len(re.close)) =>
                    (payload /\ i + Len(re.open) <= p /\ p < closeAt[i]) }

\* The characters of txt at the positions of S from i on, in order.
RECURSIVE PickFrom(_, _, _)
PickFrom(txt, S, i) ==
    IF i > Len(txt) THEN <<>>
    ELSE (IF i \in S THEN <<txt[i]>> ELSE <<>>) \o PickFrom(txt, S, i + 1)

Pick(txt, S) == PickFrom(txt, S, 1)

\* C2: a second pass over the output of strip_citation_markup changes
\* nothing: the output holds no Form A and no Form B span.
C2_Idempotent ==
    (unit = "strip" /\ passes = 2) =>
        /\ stripOut2.s = stripOut.s
        /\ ~HasSpan(PuaPattern, stripOut.s)
        /\ ~HasSpan(AnglePattern, stripOut.s)

\* C5: the result is borrowed exactly when neither form matches the input
\* and owned exactly when one does; a borrowed result is the input, an
\* owned one is strictly shorter.
C5_BorrowedIffNoMatch ==
    (unit = "strip" /\ passes >= 1) =>
        /\ stripOut.owned <=>
               (HasSpan(PuaPattern, stripIn) \/ HasSpan(AnglePattern, stripIn))
        /\ ~stripOut.owned => stripOut.s = stripIn
        /\ stripOut.owned => Len(stripOut.s) < Len(stripIn)

\* A text with a sentinel and an opened angle tag in it, but no span,
\* came back borrowed.
C5_Witness ==
    /\ unit = "strip"
    /\ passes >= 1
    /\ ~stripOut.owned
    /\ \E p \in 1 .. Len(stripIn) : stripIn[p] = CloseSentinel
    /\ \E p \in 1 .. Len(stripIn) : StartsAt(stripIn, p, AnglePattern.open)

\* C8: every Form A match is deleted with its sentinels, every Form B
\* match of what is left is replaced by its payload, and every character
\* outside the matches is kept, in order.
C8_SpansRewritten ==
    (unit = "strip" /\ passes >= 1) =>
        LET a == Pick(stripIn, Surviving(PuaPattern, stripIn, FALSE))
        IN  stripOut.s = Pick(a, Surviving(AnglePattern, a, TRUE))

\* A text with a Form A span, a Form B span with a payload and text
\* outside both has been rewritten.
C8_Witness ==
    /\ unit = "strip"
    /\ passes >= 1
    /\ HasSpan(PuaPattern, stripIn)
    /\ HasSpan(AnglePattern, stripIn)
    /\ stripOut.s = <<"x">>
    /\ stripIn[1] = OpenSentinel

\* C9: the branches of strip_citation_markup give the text that removing
\* all Form A matches and then unwrapping all Form B matches of the result
\* gives.
C9_SameAsSequence ==
    (unit = "strip" /\ passes >= 1) =>
        stripOut.s = replace_all(AnglePattern,
                                 replace_all(PuaPattern, stripIn, <<>>),
                                 <<"$", "1">>)

\* A Form B span that only exists once a Form A span is deleted has been
\* unwrapped.
C9_Witness ==
    /\ unit = "strip"
    /\ passes >= 1
    /\ HasSpan(PuaPattern, stripIn)
    /\ ~HasSpan(AnglePattern, stripIn)
    /\ HasSpan(AnglePattern, replace_all(PuaPattern, stripIn, <<>>))
    /\ stripOut.s = <<>>

(***************************************************************************)
(* Properties of the two pattern cells.                                    *)
(***************************************************************************)
\* Whether thread t holds the reference get_or_init returns for lock l.
Holds(t, l) ==
    \/ pc[t].at \in {"match", "done"}
    \/ l = "PUA_RE" /\ pc[t].lock = "ANGLE_RE"

\* C7: each cell is written at most once, a thread that has come back from
\* get_or_init holds the one initialised value, and every thread matches
\* against initialised patterns.
C7_InitOnce ==
    unit = "once" =>
        /\ \A l \in Locks :
              /\ writes[l] <= 1
              /\ onceState[l] = "complete" <=> cell[l].init
              /\ cell[l].init => cell[l] = Compiled(l) /\ writes[l] = 1
        /\ \A t \in Threads : \A l \in Locks :
              Holds(t, l) => seen[t][l].init /\ seen[t][l] = cell[l]
        /\ \A t \in Threads :
              pc[t].at = "done" =>
                  ret[t] = strip_citation_markup(arg[t], PuaPattern, AnglePattern)

\* Two first calls at once: one thread runs the initialiser of PUA_RE
\* while another has found the cell not yet initialised.
C7_Witness ==
    /\ unit = "once"
    /\ \E t \in Threads : \E u \in Threads \ {t} :
          /\ pc[t] = At("init", "PUA_RE")
          /\ pc[u] = At("call", "PUA_RE")

====
